---- MODULE Spec2Model ----
(***************************************************************************)
(* Model of the bounded crawl controller of the hotnewhiphop scraper       *)
(* (src/trash/index1.py, with src/trash/index2.py as the second variant    *)
(* of the same loop): parse_date, is_date_in_range, scrape_page and the    *)
(* page loop of main.                                                      *)
(***************************************************************************)
EXTENDS Integers, Sequences, FiniteSets, TLC

VARIABLES
    START_PAGE,              \* configured first page index
    END_PAGE,                \* configured last page index
    pc,                      \* position of main: "scrape", "control", "save", "done"
    page,                    \* loop variable of "for page in range(...)"
    response,                \* what the fetch of `page` returned (raw page or failure)
    articles,                \* main's local: kept records of the last scraped page
    page_empty,              \* main's local: second component of scrape_page's result
    has_old_articles,        \* main's local: third component of scrape_page's result
    all_articles,            \* accumulated records
    total_articles,          \* running counter
    consecutive_empty,       \* empty-page counter
    pages_with_old_articles, \* old-page streak counter
    stopReason,              \* how the loop was left
    fetchLog,                \* page indices handed to the fetch, in call order
    lastFetch,               \* outcome of the most recent fetch: "none", "ok", "failed"
    recentOld,               \* for each of the most recent processed pages: did it hold a
                             \* candidate dated before START_DATE
    zeroRun,                 \* processed pages since the last one that had a title link
                             \* (a failed fetch and an empty page have none)
    emptySinceKept,          \* fetched pages without title links since the last page that
                             \* held an in-range candidate
    backups,                 \* backup files written, by page index
    output                   \* what the end of the run produced

vars == <<START_PAGE, END_PAGE, pc, page, response, articles, page_empty,
          has_old_articles, all_articles, total_articles, consecutive_empty,
          pages_with_old_articles, stopReason, fetchLog, lastFetch, recentOld, zeroRun, emptySinceKept,
          backups, output>>

(***************************************************************************)
(* Bounds of the model                                                     *)
(***************************************************************************)
NumPages == 12       \* pages in the configured range
MaxCollected == 2    \* in-range records a run is offered in total
ShortPages == 6      \* pages in the range across a backup page

(***************************************************************************)
(* Program constants                                                       *)
(***************************************************************************)
FIRST_PAGE == 13818
OldLimit == 5
EmptyLimit == 10
START_DATE == <<2024, 1, 1, 0, 0, 0>>
END_DATE == <<2025, 12, 31, 0, 0, 0>>
SITE_ROOT == "https://www.hotnewhiphop.com"

(***************************************************************************)
(* Raw timestamp strings.  A string of the shape "Y-M-D h:m:s" (digits     *)
(* only) is represented by its six numbers; any other text by its text.    *)
(***************************************************************************)
Stamp(y, mo, d, h, mi, s) == [text |-> "", f |-> <<y, mo, d, h, mi, s>>]
Text(t) == [text |-> t, f |-> <<>>]

None == [ok |-> FALSE, t |-> <<>>]

IsLeap(y) == (y % 4 = 0) /\ ((y % 100 # 0) \/ (y % 400 = 0))

DaysInMonth(y, mo) ==
    IF mo = 2 THEN (IF IsLeap(y) THEN 29 ELSE 28)
    ELSE IF mo \in {4, 6, 9, 11} THEN 30 ELSE 31

\* datetime.strptime(date_string, "%Y-%m-%d %H:%M:%S") succeeds
Strptime_ok(date_string) ==
    /\ Len(date_string.f) = 6
    /\ LET f == date_string.f IN
        /\ f[1] \in 1..9999
        /\ f[2] \in 1..12
        /\ f[3] \in 1..DaysInMonth(f[1], f[2])
        /\ f[4] \in 0..23
        /\ f[5] \in 0..59
        /\ f[6] \in 0..59

parse_date(date_string) ==
    IF Strptime_ok(date_string) THEN [ok |-> TRUE, t |-> date_string.f] ELSE None

\* datetime comparison a < b
DateLess(a, b) ==
    \E i \in 1..6 : a[i] < b[i] /\ \A j \in 1..(i - 1) : a[j] = b[j]

DateLeq(a, b) == a = b \/ DateLess(a, b)

\* mutant: the upper end of the range is not checked
is_date_in_range_NoUpper(date_string) ==
    LET date_obj == parse_date(date_string) IN
    IF date_obj.ok THEN DateLeq(START_DATE, date_obj.t) ELSE FALSE

is_date_in_range(date_string) ==
    LET date_obj == parse_date(date_string) IN
    IF date_obj.ok THEN DateLeq(START_DATE, date_obj.t) /\ DateLeq(date_obj.t, END_DATE)
    ELSE FALSE

\* truth value of a Python string
Truthy(str) == str.text # "" \/ str.f # <<>>

(***************************************************************************)
(* Page content: the title links and the timestamps of a listing page, as  *)
(* two independently ordered sequences, or a failed fetch.                 *)
(***************************************************************************)
Link(title, http, s) == [title |-> title, href |-> [http |-> http, s |-> s]]
Page(links, timestamps) == [ok |-> TRUE, links |-> links, timestamps |-> timestamps]
FetchFailure == [ok |-> FALSE, links |-> <<>>, timestamps |-> <<>>]
\* no page content in hand (outside scrape_page)
NoResponse == [ok |-> FALSE, links |-> <<>>, timestamps |-> <<"none">>]

\* "Make URL absolute if relative"
AbsoluteUrl(href) ==
    IF href.s # "" /\ ~href.http THEN SITE_ROOT \o href.s ELSE href.s

Record(link, date_str) ==
    [ArticleURL |-> AbsoluteUrl(link.href),
     ArticleTitle |-> link.title,
     WebsiteAddress |-> SITE_ROOT,
     Date |-> date_str]

\* mutant: "elif not date_obj or date_obj < START_DATE", a timestamp that does
\* not parse counts as an old one
RECURSIVE ScanLinks_UnparsableIsOld(_, _, _, _, _)
ScanLinks_UnparsableIsOld(article_links, timestamps, i, kept, old) ==
    IF i > Len(article_links) THEN [articles |-> kept, has_old_articles |-> old]
    ELSE IF i <= Len(timestamps) /\ Truthy(timestamps[i])
    THEN LET date_str == timestamps[i]
             date_obj == parse_date(date_str)
         IN IF is_date_in_range(date_str)
            THEN ScanLinks_UnparsableIsOld(article_links, timestamps, i + 1,
                           Append(kept, Record(article_links[i], date_str)), old)
            ELSE IF ~date_obj.ok \/ DateLess(date_obj.t, START_DATE)
            THEN ScanLinks_UnparsableIsOld(article_links, timestamps, i + 1, kept, TRUE)
            ELSE ScanLinks_UnparsableIsOld(article_links, timestamps, i + 1, kept, old)
    ELSE ScanLinks_UnparsableIsOld(article_links, timestamps, i + 1, kept, old)

\* mutant: the loop over the links is left at the first old candidate
RECURSIVE ScanLinks_StopAtOld(_, _, _, _, _)
ScanLinks_StopAtOld(article_links, timestamps, i, kept, old) ==
    IF i > Len(article_links) THEN [articles |-> kept, has_old_articles |-> old]
    ELSE IF i <= Len(timestamps) /\ Truthy(timestamps[i])
    THEN LET date_str == timestamps[i]
             date_obj == parse_date(date_str)
         IN IF is_date_in_range(date_str)
            THEN ScanLinks_StopAtOld(article_links, timestamps, i + 1,
                           Append(kept, Record(article_links[i], date_str)), old)
            ELSE IF date_obj.ok /\ DateLess(date_obj.t, START_DATE)
            THEN [articles |-> kept, has_old_articles |-> TRUE]
            ELSE ScanLinks_StopAtOld(article_links, timestamps, i + 1, kept, old)
    ELSE ScanLinks_StopAtOld(article_links, timestamps, i + 1, kept, old)

\* the loop "for i, link in enumerate(article_links)" of scrape_page, from
\* position i on, with the records kept and the flag set so far
RECURSIVE ScanLinks(_, _, _, _, _)
ScanLinks(article_links, timestamps, i, kept, old) ==
    IF i > Len(article_links) THEN [articles |-> kept, has_old_articles |-> old]
    ELSE IF i <= Len(timestamps) /\ Truthy(timestamps[i])
    THEN LET date_str == timestamps[i]
             date_obj == parse_date(date_str)
         IN IF is_date_in_range(date_str)
            THEN ScanLinks(article_links, timestamps, i + 1,
                           Append(kept, Record(article_links[i], date_str)), old)
            ELSE IF date_obj.ok /\ DateLess(date_obj.t, START_DATE)
            THEN ScanLinks(article_links, timestamps, i + 1, kept, TRUE)
            ELSE ScanLinks(article_links, timestamps, i + 1, kept, old)
    ELSE ScanLinks(article_links, timestamps, i + 1, kept, old)

\* result of scrape_page when the fetch raised
FailedResult == [articles |-> <<>>, page_empty |-> FALSE, has_old_articles |-> FALSE]

\* scrape_page: (articles, page_empty, has_old_articles)
scrape_page(raw) ==
    IF ~raw.ok THEN FailedResult
    ELSE IF Len(raw.links) = 0
    THEN [articles |-> <<>>, page_empty |-> TRUE, has_old_articles |-> FALSE]
    ELSE LET r == ScanLinks(raw.links, raw.timestamps, 1, <<>>, FALSE)
         IN [articles |-> r.articles, page_empty |-> FALSE,
             has_old_articles |-> r.has_old_articles]

(***************************************************************************)
(* Sample inputs                                                           *)
(***************************************************************************)
InMid == Stamp(2024, 6, 15, 10, 0, 0)
InFirst == Stamp(2024, 1, 1, 0, 0, 0)
InLast == Stamp(2025, 12, 31, 0, 0, 0)
OldFar == Stamp(2023, 1, 1, 0, 0, 0)
OldLast == Stamp(2023, 12, 31, 23, 59, 59)
AfterFirst == Stamp(2025, 12, 31, 0, 0, 1)
BadDay == Stamp(2024, 2, 30, 10, 0, 0)
NotADate == Text("not-a-date")
NoDate == Text("")

T1 == Link("T1", FALSE, "/t1")
T1abs == Link("T1 again", TRUE, "https://www.hotnewhiphop.com/t1")
T2 == Link("T2", FALSE, "/t2")
T3 == Link("T3", FALSE, "/t3")
T4 == Link("", TRUE, "http://elsewhere/t4")

EmptyPage == Page(<<>>, <<>>)
TimesOnlyPage == Page(<<>>, <<OldFar>>)
OldOnlyPage == Page(<<T2>>, <<OldFar>>)
MixedPage == Page(<<T1, T2>>, <<InMid, OldLast>>)
InOnlyPage == Page(<<T1abs>>, <<InFirst>>)
JunkPage == Page(<<T3, T4, T2>>, <<NotADate, AfterFirst>>)
BadOnlyPage == Page(<<T3>>, <<BadDay>>)
BadOldPage == Page(<<T3, T2>>, <<NoDate, OldLast>>)
BadInPage == Page(<<T3, T4>>, <<NotADate, InLast>>)
OldThenInPage == Page(<<T2, T4>>, <<OldFar, InLast>>)

PageContents ==
    {FetchFailure, EmptyPage, TimesOnlyPage, OldOnlyPage, MixedPage, InOnlyPage,
     JunkPage, BadOnlyPage, BadOldPage, BadInPage, OldThenInPage}

(***************************************************************************)
(* The page loop of main                                                   *)
(***************************************************************************)
BackupEvery == 50

\* mutant: "all_articles = articles" instead of all_articles.extend(articles)
Extend_Overwrite(collected, kept) == IF kept # <<>> THEN kept ELSE collected

\* line 126: all_articles.extend(articles), done for a non-empty articles
Extend(collected, kept) == IF kept # <<>> THEN collected \o kept ELSE collected

\* mutant: every page without a kept article counts as an empty page
NextConsecutiveEmpty_AnyMiss(count, result) ==
    IF result.articles # <<>> THEN 0 ELSE count + 1

\* mutant: "consecutive_empty = 0" is missing from the branch that collects
NextConsecutiveEmpty_NoReset(count, result) ==
    IF result.articles # <<>> THEN count
    ELSE IF result.page_empty THEN count + 1
    ELSE count

\* lines 125-135: the empty-page counter after a page result
NextConsecutiveEmpty(count, result) ==
    IF result.articles # <<>> THEN 0
    ELSE IF result.page_empty THEN count + 1
    ELSE count

\* mutant: the else branch that resets the counter is missing
NextPagesWithOld_NoReset(count, result) ==
    IF result.has_old_articles THEN count + 1 ELSE count

\* lines 137-142: the old-page streak after a page result
NextPagesWithOld(count, result) ==
    IF result.has_old_articles THEN count + 1 ELSE 0

\* mutant: the break on the old streak is missing
StopCheck_EmptyOnly(old, empty) ==
    IF empty >= EmptyLimit THEN "EndOfSite" ELSE "None"

\* mutant: the breaks are skipped on the last page of the range
StopCheck_NotOnLastPage(old, empty) ==
    IF page = END_PAGE THEN "None"
    ELSE IF old >= OldLimit THEN "PastDateWindow"
    ELSE IF empty >= EmptyLimit THEN "EndOfSite"
    ELSE "None"

\* mutant: the empty-page limit is compared with > instead of >=
StopCheck_LateEmpty(old, empty) ==
    IF old >= OldLimit THEN "PastDateWindow"
    ELSE IF empty > EmptyLimit THEN "EndOfSite"
    ELSE "None"

\* mutant: the old-page limit is compared with > instead of >=
StopCheck_LateOld(old, empty) ==
    IF old > OldLimit THEN "PastDateWindow"
    ELSE IF empty >= EmptyLimit THEN "EndOfSite"
    ELSE "None"

\* lines 144-156: the break taken after the counters were updated, if any
StopCheck(old, empty) ==
    IF old >= OldLimit THEN "PastDateWindow"
    ELSE IF empty >= EmptyLimit THEN "EndOfSite"
    ELSE "None"

\* mutant: drop_duplicates(keep='last')
RECURSIVE drop_duplicates_KeepLast(_)
drop_duplicates_KeepLast(rows) ==
    IF rows = <<>> THEN <<>>
    ELSE LET rest == Tail(rows)
             first == Head(rows)
         IN IF \E i \in 1..Len(rest) : rest[i].ArticleURL = first.ArticleURL
            THEN drop_duplicates_KeepLast(rest)
            ELSE <<first>> \o drop_duplicates_KeepLast(rest)

\* DataFrame.drop_duplicates(subset=['Article URL']): first occurrences, in order
RECURSIVE drop_duplicates(_)
drop_duplicates(rows) ==
    IF rows = <<>> THEN <<>>
    ELSE LET front == SubSeq(rows, 1, Len(rows) - 1)
             last == rows[Len(rows)]
         IN IF \E i \in 1..Len(front) : front[i].ArticleURL = last.ArticleURL
            THEN drop_duplicates(front)
            ELSE Append(drop_duplicates(front), last)

\* mutant: "and all_articles" is missing
BackupDue_AnyCollected(p, collected) == p % BackupEvery = 0

\* line 159: "page % 50 == 0 and all_articles"
BackupDue(p, collected) == p % BackupEvery = 0 /\ collected # <<>>

\* mutant: the backup deduplicates all_articles itself
AfterBackup_InPlace(collected) == drop_duplicates(collected)

\* lines 160-163: what the backup leaves in all_articles (df_backup is a copy)
AfterBackup(collected) == collected

\* mutant: the export is attempted whatever was collected
HasResults_Always(collected) == TRUE

\* line 170: "if all_articles"
HasResults(collected) == collected # <<>>

\* mutant: the range runs one page past END_PAGE
range_has_next_PastEnd(p, last) == p <= last

\* line 122: range(START_PAGE, END_PAGE + 1) has a value after p
range_has_next(p, last) == p < last

(***************************************************************************)
(* What a page held, read off its content                                  *)
(***************************************************************************)
DayKey(f) == (f[1] * 12 + f[2]) * 31 + f[3]
SecKey(f) == (f[4] * 60 + f[5]) * 60 + f[6]
Earlier(a, b) == DayKey(a) < DayKey(b) \/ (DayKey(a) = DayKey(b) /\ SecKey(a) < SecKey(b))

\* the well-formed timestamp denotes an instant of the date window
InWindow(date_str) ==
    /\ Strptime_ok(date_str)
    /\ ~Earlier(date_str.f, START_DATE)
    /\ ~Earlier(END_DATE, date_str.f)

BeforeWindow(date_str) == Strptime_ok(date_str) /\ Earlier(date_str.f, START_DATE)

\* candidates: the positions that have both a title link and a timestamp
Candidates(raw) ==
    {i \in 1..Len(raw.links) : i <= Len(raw.timestamps)}

NoCandidates(raw) == raw.ok /\ raw.links = <<>>
PageHasOld(raw) == raw.ok /\ \E i \in Candidates(raw) : BeforeWindow(raw.timestamps[i])
PageHasInRange(raw) == raw.ok /\ \E i \in Candidates(raw) : InWindow(raw.timestamps[i])

\* the flags of the last OldLimit processed pages
Remember(h, e) ==
    IF Len(h) < OldLimit THEN Append(h, e) ELSE Append(Tail(h), e)

\* the page ranges a run is configured with: the source's first page and a
\* range across a backup page, each over a bounded number of pages, and an
\* empty range
Configs ==
    {<<FIRST_PAGE, FIRST_PAGE + NumPages - 1>>,
     <<BackupEvery * 277 - OldLimit, BackupEvery * 277 + ShortPages - OldLimit - 1>>,
     <<FIRST_PAGE, FIRST_PAGE - 1>>}

Init ==
    /\ \E c \in Configs : START_PAGE = c[1] /\ END_PAGE = c[2]
    /\ page = START_PAGE
    /\ pc = IF START_PAGE <= END_PAGE THEN "scrape" ELSE "save"
    /\ response = NoResponse
    /\ articles = <<>>
    /\ page_empty = FALSE
    /\ has_old_articles = FALSE
    /\ all_articles = <<>>
    /\ total_articles = 0
    /\ consecutive_empty = 0
    /\ pages_with_old_articles = 0
    /\ stopReason = IF START_PAGE <= END_PAGE THEN "None" ELSE "RangeExhausted"
    /\ fetchLog = <<>>
    /\ lastFetch = "none"
    /\ recentOld = <<>>
    /\ zeroRun = 0
    /\ emptySinceKept = 0
    /\ backups = {}
    /\ output = [kind |-> "none", rows |-> <<>>, duplicates_removed |-> 0]

\* line 123: scrape_page(page), one fetch of the page and its evaluation
ScrapePage ==
    /\ pc = "scrape"
    /\ \E raw \in PageContents :
        LET result == scrape_page(raw) IN
        /\ Len(all_articles) + Len(result.articles) <= MaxCollected
        /\ response' = raw
        /\ lastFetch' = IF raw.ok THEN "ok" ELSE "failed"
        /\ articles' = result.articles
        /\ page_empty' = result.page_empty
        /\ has_old_articles' = result.has_old_articles
    /\ fetchLog' = Append(fetchLog, page)
    /\ pc' = "control"
    /\ UNCHANGED <<START_PAGE, END_PAGE, page, all_articles, total_articles,
                   consecutive_empty, pages_with_old_articles, stopReason,
                   recentOld, zeroRun, emptySinceKept, backups, output>>

\* lines 125-167: the rest of the loop body, and the step of the for loop
Control ==
    /\ pc = "control"
    /\ LET result == [articles |-> articles, page_empty |-> page_empty,
                      has_old_articles |-> has_old_articles]
           collected == Extend(all_articles, articles)
           empty == NextConsecutiveEmpty(consecutive_empty, result)
           old == NextPagesWithOld(pages_with_old_articles, result)
           stop == StopCheck(old, empty)
       IN
        /\ all_articles' = IF stop = "None" /\ BackupDue(page, collected)
                           THEN AfterBackup(collected) ELSE collected
        /\ total_articles' = IF articles # <<>> THEN total_articles + Len(articles)
                             ELSE total_articles
        /\ consecutive_empty' = empty
        /\ pages_with_old_articles' = old
        /\ recentOld' = Remember(recentOld, PageHasOld(response))
        /\ zeroRun' = IF response.links = <<>> THEN zeroRun + 1 ELSE 0
        /\ emptySinceKept' = IF PageHasInRange(response) THEN 0
                             ELSE IF NoCandidates(response) THEN emptySinceKept + 1
                             ELSE emptySinceKept
        /\ response' = NoResponse
        /\ IF stop # "None"
           THEN /\ stopReason' = stop
                /\ pc' = "save"
                /\ UNCHANGED <<page, backups>>
           ELSE /\ backups' = IF BackupDue(page, collected)
                              THEN backups \cup {[file |-> page, rows |-> drop_duplicates(collected)]}
                              ELSE backups
                /\ IF range_has_next(page, END_PAGE)
                   THEN /\ page' = page + 1
                        /\ pc' = "scrape"
                        /\ UNCHANGED stopReason
                   ELSE /\ stopReason' = "RangeExhausted"
                        /\ pc' = "save"
                        /\ UNCHANGED page
    /\ UNCHANGED <<START_PAGE, END_PAGE, articles, page_empty,
                   has_old_articles, fetchLog, lastFetch, output>>

\* rows ordered by Date_obj, newest first
SortedByDateDesc(rows) ==
    \A i \in 1..(Len(rows) - 1) :
        ~DateLess(parse_date(rows[i].Date).t, parse_date(rows[i + 1].Date).t)

\* the orders sort_values('Date_obj', ascending=False) can give the rows
sort_values(rows) ==
    LET n == Len(rows)
        perms == {f \in [1..n -> 1..n] : \A i, j \in 1..n : f[i] = f[j] => i = j}
    IN {s \in {[i \in 1..n |-> rows[f[i]]] : f \in perms} : SortedByDateDesc(s)}

\* lines 169-207: the final export, or the "no articles found" report
Save ==
    /\ pc = "save"
    /\ IF HasResults(all_articles)
       THEN LET original_count == Len(all_articles)
                unique == drop_duplicates(all_articles)
            IN \E df \in sort_values(unique) :
                output' = [kind |-> "file", rows |-> df,
                           duplicates_removed |-> original_count - Len(unique)]
       ELSE output' = [kind |-> "no articles found", rows |-> <<>>,
                       duplicates_removed |-> 0]
    /\ pc' = "done"
    /\ UNCHANGED <<START_PAGE, END_PAGE, page, response, articles, page_empty,
                   has_old_articles, all_articles, total_articles, consecutive_empty,
                   pages_with_old_articles, stopReason, fetchLog, lastFetch, recentOld,
                   zeroRun, emptySinceKept, backups>>

Next == ScrapePage \/ Control \/ Save

Spec == Init /\ [][Next]_vars

(***************************************************************************)
(* Properties                                                              *)
(***************************************************************************)
AllInWindow(rows) == \A i \in 1..Len(rows) : InWindow(rows[i].Date)

\* C1: every record of all_articles, and so every row of a backup and of the
\* final export, has a timestamp that parses as YYYY-MM-DD HH:MM:SS and lies
\* between START_DATE and END_DATE (both included).
C1_AllInRange ==
    /\ AllInWindow(all_articles)
    /\ \A b \in backups : AllInWindow(b.rows)
    /\ AllInWindow(output.rows)

\* a finished run that exported a record dated exactly END_DATE and wrote a backup
C1_Witness ==
    /\ pc = "done"
    /\ output.kind = "file"
    /\ backups # {}
    /\ \E i \in 1..Len(output.rows) : output.rows[i].Date = InLast

AllOld(flags) == Len(flags) = OldLimit /\ \A i \in 1..Len(flags) : flags[i]

\* C2: the run has stopped with PastDateWindow exactly when the last OldLimit
\* processed pages each held a candidate dated before START_DATE; after OldLimit
\* such pages in a row no further page is processed.
C2_StopsAtFifthOld ==
    /\ (stopReason = "PastDateWindow") <=> AllOld(recentOld)
    /\ AllOld(recentOld) => pc \in {"save", "done"}

\* a PastDateWindow stop whose streak began after the first page
C2_Witness ==
    /\ stopReason = "PastDateWindow"
    /\ Len(fetchLog) > OldLimit
    /\ all_articles # <<>>

\* pages whose loop body has run
Processed == IF pc = "control" THEN Len(fetchLog) - 1 ELSE Len(fetchLog)

\* C3: a page that yields an in-range article resets the old streak: after 4
\* old-only pages and a 5th page that keeps an in-range record, the streak
\* is 0 and the run goes on to the pages that follow.
C3_InRangePageResetsStreak ==
    (/\ pc # "control"
     /\ Len(fetchLog) = OldLimit
     /\ \A i \in 1..(OldLimit - 1) : recentOld[i]
     /\ articles # <<>>
     /\ all_articles = articles)
    => (pages_with_old_articles = 0 /\ stopReason = "None")

RECURSIVE TrailingTrue(_)
TrailingTrue(flags) ==
    IF flags = <<>> \/ ~flags[Len(flags)] THEN 0
    ELSE 1 + TrailingTrue(SubSeq(flags, 1, Len(flags) - 1))

\* C4: pages_with_old_articles is the number of most recent consecutive
\* processed pages that held a candidate dated before START_DATE; so it is 0
\* after any page without one (empty, failed, or without an old candidate).
C4_StreakIsTrailingRun ==
    pages_with_old_articles = TrailingTrue(recentOld)

\* a streak of two ended by a page whose fetch failed
C4_Witness ==
    /\ pc = "scrape"
    /\ lastFetch = "failed"
    /\ Len(recentOld) >= 3
    /\ recentOld[Len(recentOld) - 2]
    /\ recentOld[Len(recentOld) - 1]
    /\ ~recentOld[Len(recentOld)]
    /\ pages_with_old_articles = 0

\* C5: a page whose fetch failed gives the Page Result of a page without
\* candidates: no articles, page_empty true, has_old_articles false.
C5_FailedFetchIsEmptyPage ==
    (pc = "control" /\ ~response.ok)
    => (articles = <<>> /\ page_empty /\ ~has_old_articles)

\* C6: when the run has stopped with EndOfSite, each of the last EmptyLimit
\* processed pages yielded no title link (counting a failed fetch as such a
\* page too).
C6_EndOfSiteAfterEmptyRun ==
    stopReason = "EndOfSite" => zeroRun >= EmptyLimit

\* C7: consecutive_empty grows only by a page without title links, and then by
\* 1; a non-empty page without an in-range candidate leaves it unchanged; the
\* run stops with EndOfSite only after EmptyLimit pages without title links
\* since the last page with an in-range candidate.
C7_OnlyEmptyPagesCount ==
    [][/\ consecutive_empty' > consecutive_empty
            => (/\ pc = "control"
                /\ NoCandidates(response)
                /\ consecutive_empty' = consecutive_empty + 1)
       /\ (pc = "control" /\ ~NoCandidates(response) /\ ~PageHasInRange(response))
            => consecutive_empty' = consecutive_empty
       /\ stopReason' = "EndOfSite" => emptySinceKept' >= EmptyLimit]_vars

\* an EndOfSite stop whose counted pages were interrupted by a page that was
\* not empty and kept nothing
C7_Witness ==
    /\ stopReason = "EndOfSite"
    /\ zeroRun < EmptyLimit
    /\ consecutive_empty = EmptyLimit

\* the run so far: the first page gave exactly T1 (in range, next to an old
\* T2), every later page had no title links, and the range does not end first
C8_Scenario ==
    /\ Processed >= 1
    /\ emptySinceKept = Processed - 1
    /\ all_articles = <<Record(T1, InMid)>>
    /\ END_PAGE - START_PAGE >= EmptyLimit

\* C8: in that run the loop goes on until the EmptyLimit-th empty page, stops
\* there with EndOfSite and not with PastDateWindow, and exports exactly T1.
C8_EndOfSiteKeepsT1 ==
    C8_Scenario =>
        /\ stopReason # "PastDateWindow"
        /\ emptySinceKept < EmptyLimit => stopReason = "None"
        /\ emptySinceKept >= EmptyLimit
             => (/\ emptySinceKept = EmptyLimit
                 /\ stopReason = "EndOfSite"
                 /\ pc \in {"save", "done"})
        /\ pc = "done" => (output.kind = "file" /\ output.rows = <<Record(T1, InMid)>>)

C8_Witness ==
    /\ C8_Scenario
    /\ pc = "done"
    /\ stopReason = "EndOfSite"
    /\ Processed = EmptyLimit + 1

\* the elements of seq at the positions in keep, in order
RECURSIVE Pick(_, _, _)
Pick(seq, keep, i) ==
    IF i > Len(seq) THEN <<>>
    ELSE IF i \in keep THEN <<seq[i]>> \o Pick(seq, keep, i + 1)
    ELSE Pick(seq, keep, i + 1)

Unparsable(raw) == {i \in Candidates(raw) : ~Strptime_ok(raw.timestamps[i])}

\* the page without its candidates whose timestamp does not parse
StripUnparsable(raw) ==
    [ok |-> raw.ok,
     links |-> Pick(raw.links, (1..Len(raw.links)) \ Unparsable(raw), 1),
     timestamps |-> Pick(raw.timestamps, (1..Len(raw.timestamps)) \ Unparsable(raw), 1)]

\* all_articles and the two counters after the loop body has run on page raw
AfterPage(raw) ==
    LET result == scrape_page(raw) IN
    [all |-> Extend(all_articles, result.articles),
     empty |-> NextConsecutiveEmpty(consecutive_empty, result),
     old |-> NextPagesWithOld(pages_with_old_articles, result)]

\* C9 (as stated): processing a page gives the same all_articles,
\* consecutive_empty and pages_with_old_articles as processing the page with
\* its unparsable-timestamp candidates removed.
C9_UnparsableChangesNothing ==
    [][(pc = "control" /\ response.ok)
        => LET a == AfterPage(StripUnparsable(response)) IN
            /\ all_articles' = a.all
            /\ consecutive_empty' = a.empty
            /\ pages_with_old_articles' = a.old]_vars

\* C9 (amended): the same all_articles and pages_with_old_articles, and the same
\* consecutive_empty when a title link is left on the page; when the removal
\* leaves no title link, the page itself leaves consecutive_empty unchanged
\* while the page without them counts as an empty page.
C9_UnparsableKeepsArticlesAndOldStreak ==
    [][(pc = "control" /\ response.ok)
        => LET stripped == StripUnparsable(response)
               a == AfterPage(stripped)
           IN /\ all_articles' = a.all
              /\ pages_with_old_articles' = a.old
              /\ stripped.links # <<>> => consecutive_empty' = a.empty
              /\ (stripped.links = <<>> /\ response.links # <<>>)
                   => (/\ consecutive_empty' = consecutive_empty
                       /\ a.empty = consecutive_empty + 1)]_vars

\* a page whose only candidate has a timestamp that does not parse has been
\* scraped, with empty pages counted before it
C9_Witness ==
    /\ pc = "control"
    /\ response.ok
    /\ Unparsable(response) # {}
    /\ StripUnparsable(response).links = <<>>
    /\ articles = <<>>
    /\ ~page_empty
    /\ consecutive_empty > 0

\* C10: the fetches of a run are for START_PAGE, START_PAGE + 1, ... in this
\* order, one fetch per page index (also after a failed fetch), none above
\* END_PAGE; the cursor is the page fetched last, or the next one to fetch.
C10_SequentialSingleFetch ==
    /\ \A i \in 1..Len(fetchLog) :
        fetchLog[i] = START_PAGE + i - 1 /\ fetchLog[i] <= END_PAGE
    /\ page >= START_PAGE
    /\ pc = "control" => page = fetchLog[Len(fetchLog)]
    /\ pc = "scrape" => page = START_PAGE + Len(fetchLog)

\* a run that went through its whole range and whose last fetch failed
C10_Witness ==
    /\ pc = "done"
    /\ stopReason = "RangeExhausted"
    /\ lastFetch = "failed"
    /\ Len(fetchLog) = END_PAGE - START_PAGE + 1
    /\ fetchLog[Len(fetchLog)] = END_PAGE

IsPrefix(a, b) == Len(a) <= Len(b) /\ SubSeq(b, 1, Len(a)) = a

\* the records of the page's candidates dated inside the window, in page order
RECURSIVE InRangeFrom(_, _)
InRangeFrom(raw, i) ==
    IF ~raw.ok \/ i > Len(raw.links) THEN <<>>
    ELSE IF i \in Candidates(raw) /\ InWindow(raw.timestamps[i])
    THEN <<Record(raw.links[i], raw.timestamps[i])>> \o InRangeFrom(raw, i + 1)
    ELSE InRangeFrom(raw, i + 1)

InRangeRecords(raw) == InRangeFrom(raw, 1)

\* C11: all_articles is append-only: every step leaves the old value as a
\* prefix of the new one, the loop body appends exactly the kept records of
\* its page in page order, no other step changes it, and total_articles is
\* the length of all_articles before and after every step.
C11_AppendOnly ==
    [][/\ IsPrefix(all_articles, all_articles')
       /\ pc = "control" => all_articles' = all_articles \o InRangeRecords(response)
       /\ pc # "control" => all_articles' = all_articles
       /\ total_articles = Len(all_articles)
       /\ total_articles' = Len(all_articles')]_vars

\* two pages have each added a record, in page order
C11_Witness ==
    /\ pc = "scrape"
    /\ total_articles = 2
    /\ Len(all_articles) = 2
    /\ all_articles[1].Date = InMid
    /\ all_articles[2].Date = InFirst

\* C12: a step that writes a backup leaves in all_articles, total_articles, the
\* two counters and the cursor what the same loop body leaves without the
\* backup: the page's records appended, nothing removed, the counters as the
\* page result sets them, the cursor on the next page.
C12_BackupLeavesStateAlone ==
    [][backups' # backups
        => LET a == AfterPage(response) IN
            /\ all_articles' = all_articles \o InRangeRecords(response)
            /\ total_articles' = Len(all_articles')
            /\ consecutive_empty' = a.empty
            /\ pages_with_old_articles' = a.old
            /\ page' = IF page < END_PAGE THEN page + 1 ELSE page
            /\ stopReason' = IF page < END_PAGE THEN "None" ELSE "RangeExhausted"]_vars

\* a backup was written while all_articles held two records of one URL, and
\* all_articles still holds both
C12_Witness ==
    /\ backups # {}
    /\ \E b \in backups : Len(b.rows) < Len(all_articles)
    /\ Len(drop_duplicates(all_articles)) < Len(all_articles)

\* the positions of rows that hold the first record of their URL
FirstOccurrences(rows) ==
    {i \in 1..Len(rows) : \A j \in 1..(i - 1) : rows[j].ArticleURL # rows[i].ArticleURL}

RowSet(rows) == {rows[i] : i \in 1..Len(rows)}

\* C13: deduplicating the collected sequence keeps, for every URL, exactly its
\* first record, in input order; the result has no URL twice and deduplicating
\* it again removes nothing; the export holds these records and reports
\* duplicates_removed = original count - unique count.
C13_DedupKeepsFirst ==
    LET unique == drop_duplicates(all_articles) IN
    /\ unique = Pick(all_articles, FirstOccurrences(all_articles), 1)
    /\ \A i, j \in 1..Len(unique) : unique[i].ArticleURL = unique[j].ArticleURL => i = j
    /\ drop_duplicates(unique) = unique
    /\ Len(unique) - Len(drop_duplicates(unique)) = 0
    /\ \A b \in backups : drop_duplicates(b.rows) = b.rows
    /\ output.kind = "file"
         => /\ RowSet(output.rows) = RowSet(unique)
            /\ Len(output.rows) = Len(unique)
            /\ output.duplicates_removed = total_articles - Len(unique)

\* the export of a run that collected T1 twice, under a relative and under an
\* absolute link, holds the first of the two
C13_Witness ==
    /\ pc = "done"
    /\ Len(all_articles) = 2
    /\ all_articles[1].ArticleTitle = "T1"
    /\ all_articles[2].ArticleTitle = "T1 again"
    /\ output.rows = <<all_articles[1]>>
    /\ output.duplicates_removed = 1

\* C14: when the run has ended, the output file exists if and only if
\* all_articles is non-empty, and with an empty all_articles the run ends in
\* the "no articles found" report; before the end there is neither.
C14_FileIffCollected ==
    /\ pc = "done" => (output.kind = "file" <=> all_articles # <<>>)
    /\ (pc = "done" /\ all_articles = <<>>) => output.kind = "no articles found"
    /\ output.kind = "file" => output.rows # <<>>
    /\ pc # "done" => output.kind = "none"

\* a run over an empty page range has ended without a file
C14_Witness ==
    /\ pc = "done"
    /\ START_PAGE > END_PAGE
    /\ fetchLog = <<>>
    /\ output.kind = "no articles found"

\* C15: consecutive_empty is 0 right after every page that held an in-range
\* candidate, whatever it was before and whether or not the page also held a
\* candidate dated before START_DATE.
C15_KeptPageResetsEmpty ==
    [][(pc = "control" /\ PageHasInRange(response)) => consecutive_empty' = 0]_vars

\* a page with an in-range and an old candidate has been scraped while
\* consecutive_empty is not 0
C15_Witness ==
    /\ pc = "control"
    /\ PageHasInRange(response)
    /\ PageHasOld(response)
    /\ articles # <<>>
    /\ consecutive_empty > 0

BackupNamed(files, p) == \E b \in files : b.file = p

\* C16 (as stated): for every processed page p with p mod BackupEvery = 0, a
\* backup named by p is written if and only if all_articles is non-empty
\* after the page, also on a page on which a stop condition is met.
C16_BackupOnEveryFiftiethPage ==
    [][(pc = "control" /\ page % BackupEvery = 0)
        => (BackupNamed(backups', page) <=> all_articles' # <<>>)]_vars

\* C16 (amended): the loop body of page p writes a backup named by p, holding
\* the deduplicated all_articles, if and only if p mod BackupEvery = 0,
\* all_articles is non-empty after the page and the page does not end the loop
\* with PastDateWindow or EndOfSite; no other backup is ever written.
C16_BackupUnlessStopped ==
    [][/\ pc = "control"
            => /\ BackupNamed(backups', page)
                    <=> (/\ page % BackupEvery = 0
                         /\ all_articles' # <<>>
                         /\ stopReason' \notin {"PastDateWindow", "EndOfSite"})
               /\ backups' \in {backups,
                                backups \cup {[file |-> page,
                                               rows |-> drop_duplicates(all_articles')]}}
       /\ pc # "control" => backups' = backups]_vars

\* the loop body of a backup page has run and written the backup of that page
C16_Witness ==
    /\ pc # "control"
    /\ \E b \in backups : b.file % BackupEvery = 0 /\ b.rows # <<>>
    /\ stopReason \notin {"PastDateWindow", "EndOfSite"}

\* pages of the configured range
RangeSize == IF START_PAGE <= END_PAGE THEN END_PAGE - START_PAGE + 1 ELSE 0

\* what C17 says of every state: no more pages are processed than the range
\* holds, the loop is running only while both counters are below their
\* limits, it is left on a streak only with that streak at its limit and on
\* the end of the range only after END_PAGE, and a finished run has exported
\* or reported "no articles found"
C17_Bounded ==
    /\ Len(fetchLog) <= RangeSize
    /\ pc \in {"scrape", "control"}
         => (/\ stopReason = "None"
             /\ pages_with_old_articles < OldLimit
             /\ consecutive_empty < EmptyLimit)
    /\ pc \in {"save", "done"} => stopReason # "None"
    /\ stopReason = "PastDateWindow" => pages_with_old_articles >= OldLimit
    /\ stopReason = "EndOfSite" => consecutive_empty >= EmptyLimit
    /\ stopReason = "RangeExhausted" => Len(fetchLog) = RangeSize
    /\ pc = "done" => output.kind \in {"file", "no articles found"}

\* steps main has left at most: two per page not yet processed, and the export
StepsLeft ==
    CASE pc = "done" -> 0
      [] pc = "save" -> 1
      [] pc = "control" -> 2 * (END_PAGE - page) + 2
      [] pc = "scrape" -> 2 * (END_PAGE - page) + 3

\* C17: every run terminates: it stays within these limits, every step brings
\* it closer to the end of main (StepsLeft falls and is never negative), and
\* it cannot stop before the final export or the "no articles found" report.
C17_Terminates ==
    /\ [](C17_Bounded /\ StepsLeft >= 0 /\ (pc = "done" \/ ENABLED Next))
    /\ [][StepsLeft' < StepsLeft]_vars

\* a finished run that processed every page of its range and exported
C17_Witness ==
    /\ pc = "done"
    /\ stopReason = "RangeExhausted"
    /\ Len(fetchLog) = RangeSize
    /\ RangeSize > EmptyLimit
    /\ output.kind = "file"

\* C18: the stop reason follows the order of the checks: a run whose old
\* streak is at its limit has stopped with PastDateWindow, one whose empty
\* counter is at its limit (and whose old streak is not) with EndOfSite, also
\* when that happens on page END_PAGE; RangeExhausted is the reason only when
\* neither limit is reached after the last page of the range.
C18_StopReasonOrder ==
    /\ pages_with_old_articles >= OldLimit => stopReason = "PastDateWindow"
    /\ (pages_with_old_articles < OldLimit /\ consecutive_empty >= EmptyLimit)
         => stopReason = "EndOfSite"
    /\ stopReason = "RangeExhausted"
         => (/\ pages_with_old_articles < OldLimit
             /\ consecutive_empty < EmptyLimit
             /\ Len(fetchLog) = RangeSize)

\* the old streak reached its limit on the last page of the range
C18_Witness ==
    /\ pc = "save"
    /\ page = END_PAGE
    /\ Len(fetchLog) = RangeSize
    /\ stopReason = "PastDateWindow"

\* C19: for a fetched page, articles holds exactly the records of the
\* candidates (title and timestamp at the same position) dated inside the
\* window, in page order; has_old_articles is true exactly when a candidate is
\* dated before START_DATE, wherever it stands on the page; page_empty is true
\* exactly when the page has no title link, and then articles is empty and
\* has_old_articles false.
C19_PageResult ==
    (pc = "control" /\ response.ok)
    => /\ articles = InRangeRecords(response)
       /\ has_old_articles = PageHasOld(response)
       /\ page_empty = (response.links = <<>>)
       /\ page_empty => (articles = <<>> /\ ~has_old_articles)

\* a page whose old candidate stands before its in-range candidate was scraped
C19_Witness ==
    /\ pc = "control"
    /\ response.ok
    /\ Len(response.links) >= 2
    /\ BeforeWindow(response.timestamps[1])
    /\ InWindow(response.timestamps[2])
    /\ Len(articles) = 1
    /\ has_old_articles

\* C20: 0 <= pages_with_old_articles <= OldLimit and 0 <= consecutive_empty
\* <= EmptyLimit in every state, and the two counters are never both at
\* their limits, so that each stop reason is decided by its own counter alone,
\* whichever of the two is compared first.
C20_CountersBoundedAndExclusive ==
    /\ pages_with_old_articles \in 0..OldLimit
    /\ consecutive_empty \in 0..EmptyLimit
    /\ ~(pages_with_old_articles >= OldLimit /\ consecutive_empty >= EmptyLimit)
    /\ stopReason = "PastDateWindow" <=> pages_with_old_articles >= OldLimit
    /\ stopReason = "EndOfSite" <=> consecutive_empty >= EmptyLimit

\* the old streak reached its limit while empty pages were counted
C20_Witness ==
    /\ stopReason = "PastDateWindow"
    /\ pages_with_old_articles = OldLimit
    /\ consecutive_empty >= OldLimit

====
